---- MODULE Spec2Model ----
(***************************************************************************)
(* A model of geomate: the direction canonicaliser, the hole/shaft         *)
(* classifier, the stable identifiers, the feature extractor, the two runs *)
(* (import_step, extract_all) that persist their documents, run once or    *)
(* twice on a file, and the extract_features command of the command line.  *)
(*                                                                         *)
(* The B-Rep kernel (pythonocc) is outside the repository: every answer it *)
(* gives (a surface kind, a direction, a normal being defined, the state   *)
(* of a point against a solid, whether an explorer has more items) is an   *)
(* input, drawn from a small set at the place the code asks for it.        *)
(***************************************************************************)
EXTENDS Integers, Sequences, FiniteSets, TLC

VARIABLES
    canon,      \* harness of _canonical_dir: the kernel direction and the results
    clf,        \* classify_cylinder_hole_vs_shaft: its position, log and result
    probe,      \* the kernel's answers at the classifier's last step
    fs,         \* the file system: the directories and the files written
    run,        \* the command running (cmd_import, extract_all, ...): its locals
    walk,       \* what the topology walker enumerated: per root, its solids' faces
    prev,       \* the run before this one: what the kernel answered, what it wrote
    calc        \* harness of the pure computations: the inputs and the results

vars == <<canon, clf, probe, fs, run, walk, prev, calc>>

----------------------------------------------------------------------------
(* Bounds of the model.                                                    *)

\* Direction components range over -MaxComp..MaxComp.
MaxComp == 2

\* The small components of a key direction range over -RoundWindow..RoundWindow.
RoundWindow == 160

\* A cylinder's radius is one of the first MaxRadiusSteps multiples of 0.25, or 0.
MaxRadiusSteps == 120

\* A file transfers at most MaxRoots root shapes.
MaxRoots == 2

\* The root shapes of a file hold at most MaxSolids solids in all.
MaxSolids == 2

\* The solids of a file hold at most MaxFaces faces in all.
MaxFaces == 2

----------------------------------------------------------------------------
(* Vectors.  A direction is a triple of integers; gp_Dir holds a unit      *)
(* vector, and its constructor normalises its arguments, which leaves the  *)
(* negation of a unit vector as it is.                                     *)

None == <<>>

Abs(x) == IF x < 0 THEN -x ELSE x

Neg(d) == <<-d[1], -d[2], -d[3]>>

Comps == (-MaxComp)..MaxComp

Dirs == Comps \X Comps \X Comps

\* A plausible slip in _canonical_dir: strict comparisons, so that a tie
\* between the two largest magnitudes falls through to the z branch.
CanonicalDirStrict(d) ==
    LET x == d[1]  y == d[2]  z == d[3]
        ax == Abs(x)  ay == Abs(y)  az == Abs(z)
    IN  IF ax > ay /\ ax > az
        THEN (IF x < 0 THEN Neg(d) ELSE d)
        ELSE IF ay > ax /\ ay > az
        THEN (IF y < 0 THEN Neg(d) ELSE d)
        ELSE (IF z < 0 THEN Neg(d) ELSE d)

\* A plausible slip in _canonical_dir: the sign test of the y branch reads x.
CanonicalDirWrongSign(d) ==
    LET x == d[1]  y == d[2]  z == d[3]
        ax == Abs(x)  ay == Abs(y)  az == Abs(z)
    IN  IF ax >= ay /\ ax >= az
        THEN (IF x < 0 THEN Neg(d) ELSE d)
        ELSE IF ay >= ax /\ ay >= az
        THEN (IF x < 0 THEN Neg(d) ELSE d)
        ELSE (IF z < 0 THEN Neg(d) ELSE d)

\* _canonical_dir: make the dominant component positive.
CanonicalDir(d) ==
    LET x == d[1]  y == d[2]  z == d[3]
        ax == Abs(x)  ay == Abs(y)  az == Abs(z)
    IN  IF ax >= ay /\ ax >= az
        THEN (IF x < 0 THEN Neg(d) ELSE d)
        ELSE IF ay >= ax /\ ay >= az
        THEN (IF y < 0 THEN Neg(d) ELSE d)
        ELSE (IF z < 0 THEN Neg(d) ELSE d)

----------------------------------------------------------------------------
(* The canonicaliser applied: to a kernel direction d, to -d, and to its   *)
(* own result.                                                             *)

CanonIdle == [d |-> None, of |-> None, neg |-> None, twice |-> None]

ClfIdle ==
    [pc |-> "idle", kind |-> "none", i |-> 0, j |-> 0, result |-> "none", log |-> <<>>]

ProbeIdle == [plus |-> "none", minus |-> "none", onesided |-> <<>>]

\* No directory and no file; log lists the paths written, in order.
FsEmpty == [dirs |-> {}, files |-> <<>>, log |-> <<>>]

\* No run has ended before this one.
PrevNone == [n |-> 0, cmd |-> "none", walk |-> <<>>, files |-> <<>>]

\* No computation has been made.
CalcIdle == [op |-> "none", in |-> None, out |-> None]

\* No command has been started.
RunIdle ==
    [cmd |-> "none", pc |-> "idle", status |-> "none", dirs0 |-> {},
     nroots |-> 0, root |-> 0, solid |-> 0, nsolids |-> 0, nfaces |-> 0,
     part_id |-> None, index |-> None, faces_payload |-> <<>>,
     features |-> <<>>, written |-> <<>>]

CanonInit ==
    /\ \E d \in Dirs : canon = [CanonIdle EXCEPT !.d = d]
    /\ clf = ClfIdle
    /\ probe = ProbeIdle
    /\ fs = FsEmpty
    /\ run = RunIdle
    /\ walk = <<>>
    /\ prev = PrevNone
    /\ calc = CalcIdle

\* _canonical_dir(d)
CanonOfD ==
    /\ canon.d # None
    /\ canon.of = None
    /\ canon' = [canon EXCEPT !.of = CanonicalDir(canon.d)]
    /\ UNCHANGED <<clf, probe, fs, run, walk, prev, calc>>

\* _canonical_dir(-d)
CanonOfNeg ==
    /\ canon.d # None
    /\ canon.neg = None
    /\ canon' = [canon EXCEPT !.neg = CanonicalDir(Neg(canon.d))]
    /\ UNCHANGED <<clf, probe, fs, run, walk, prev, calc>>

\* _canonical_dir(_canonical_dir(d))
CanonTwice ==
    /\ canon.of # None
    /\ canon.twice = None
    /\ canon' = [canon EXCEPT !.twice = CanonicalDir(canon.of)]
    /\ UNCHANGED <<clf, probe, fs, run, walk, prev, calc>>

CanonNext == CanonOfD \/ CanonOfNeg \/ CanonTwice

SpecCanon == CanonInit /\ [][CanonNext]_vars

----------------------------------------------------------------------------
(* C5.  canonicalize is sign-invariant: for every non-zero direction d,    *)
(* ties between magnitudes included, canonicalize(d) = canonicalize(-d).   *)

Zero == <<0, 0, 0>>

C5_SignInvariant ==
    (canon.of # None /\ canon.neg # None /\ canon.d # Zero)
        => canon.of = canon.neg

\* Both results are in, for a direction whose two largest magnitudes tie
\* and whose first dominant component is negative.
C5_Witness ==
    /\ canon.of # None /\ canon.neg # None
    /\ canon.d = <<-1, 1, 0>>
    /\ canon.of = <<1, -1, 0>>

----------------------------------------------------------------------------
(* C6.  canonicalize is idempotent, and its result is d or -d with the     *)
(* component of the dominant axis (the first of x, y, z whose magnitude is *)
(* at least the other two) non-negative.                                   *)

DominantAxis(d) ==
    CHOOSE k \in 1..3 :
        /\ \A m \in 1..3 : Abs(d[k]) >= Abs(d[m])
        /\ \A m \in 1..(k-1) : \E n \in 1..3 : Abs(d[m]) < Abs(d[n])

C6_Idempotent ==
    /\ canon.twice # None => canon.twice = canon.of
    /\ canon.of # None =>
          /\ canon.of \in {canon.d, Neg(canon.d)}
          /\ canon.of[DominantAxis(canon.d)] >= 0

\* The canonicaliser ran on its own result, for a direction it had to negate.
C6_Witness ==
    /\ canon.twice # None
    /\ canon.d = <<0, -2, 1>>
    /\ canon.of = <<0, 2, -1>>

----------------------------------------------------------------------------
(* The hole/shaft classifier, classify_cylinder_hole_vs_shaft.             *)

\* uv_samples: midpoint, one-third point, two-third point, in this order.
NumSamples == 3

\* eps_list: the five probe distances of the ladder, in this order.
NumEps == 5

\* GeomAbs surface kinds, as far as the code tells them apart.
SurfaceKinds == {"plane", "cylinder", "other"}

\* TopAbs_State, the answer of BRepClass3d_SolidClassifier.
States == {"IN", "ON", "OUT", "UNKNOWN"}

\* A plausible slip in _is_in_or_on: a point on the boundary counts as outside.
IsInOnly(st) == st = "IN"

\* _is_in_or_on: st in (TopAbs_IN, TopAbs_ON)
IsInOrOn(st) == st \in {"IN", "ON"}

\* One kernel call of the classifier, as the log keeps it: the evaluation
\* of the normal at sample s (with whether it is defined), or the state of
\* the point at distance e on one side of sample s.
LogNormal(s, defined) == [op |-> "normal", s |-> s, e |-> 0, defined |-> defined]

LogState(side, s, e) == [op |-> side, s |-> s, e |-> e, defined |-> TRUE]

\* The function is entered: a face that is no cylinder returns at once.
ClfBegin(kind) ==
    IF kind # "cylinder"
    THEN [ClfIdle EXCEPT !.pc = "done", !.kind = kind, !.result = "unknown"]
    ELSE [ClfIdle EXCEPT !.pc = "sample", !.kind = kind, !.i = 1]

\* The outer loop moves to its next sample, or falls out to return "unknown".
ClfNextSample(c) ==
    IF c.i < NumSamples
    THEN [c EXCEPT !.pc = "sample", !.i = c.i + 1, !.j = 0]
    ELSE [c EXCEPT !.pc = "done", !.result = "unknown"]

\* A plausible slip: an undefined normal ends the search (break, not continue).
ClfSampleBreak(c, defined) ==
    LET c1 == [c EXCEPT !.log = Append(@, LogNormal(c.i, defined))]
    IN  IF ~defined
        THEN [c1 EXCEPT !.pc = "done", !.result = "unknown"]
        ELSE [c1 EXCEPT !.pc = "probe", !.j = 1]

\* The head of the outer loop: BRepLProp_SLProps at sample i; an undefined
\* normal continues with the next sample.
ClfSample(c, defined) ==
    LET c1 == [c EXCEPT !.log = Append(@, LogNormal(c.i, defined))]
    IN  IF ~defined
        THEN ClfNextSample(c1)
        ELSE [c1 EXCEPT !.pc = "probe", !.j = 1]

\* A plausible slip: the verdict is kept and the loops run on (an
\* assignment where the code returns), so the last verdict wins.
ClfProbeNoStop(c, stPlus, stMinus) ==
    LET c1 == [c EXCEPT !.log = Append(Append(@, LogState("plus", c.i, c.j)),
                                       LogState("minus", c.i, c.j))]
        plus_in == IsInOrOn(stPlus)
        minus_in == IsInOrOn(stMinus)
        c2 == IF plus_in /\ ~minus_in THEN [c1 EXCEPT !.result = "hole"]
              ELSE IF minus_in /\ ~plus_in THEN [c1 EXCEPT !.result = "shaft"]
              ELSE c1
        c3 == IF c2.j < NumEps THEN [c2 EXCEPT !.j = c2.j + 1]
              ELSE IF c2.i < NumSamples
              THEN [c2 EXCEPT !.pc = "sample", !.i = c2.i + 1, !.j = 0]
              ELSE [c2 EXCEPT !.pc = "done"]
    IN  IF c3.pc = "done" /\ c3.result = "none"
        THEN [c3 EXCEPT !.result = "unknown"]
        ELSE c3

\* The body of the inner loop at sample i, distance j: both points are
\* classified, then the two tests; a verdict returns at once.
ClfProbe(c, stPlus, stMinus) ==
    LET c1 == [c EXCEPT !.log = Append(Append(@, LogState("plus", c.i, c.j)),
                                       LogState("minus", c.i, c.j))]
        plus_in == IsInOrOn(stPlus)
        minus_in == IsInOrOn(stMinus)
    IN  IF plus_in /\ ~minus_in
        THEN [c1 EXCEPT !.pc = "done", !.result = "hole"]
        ELSE IF minus_in /\ ~plus_in
        THEN [c1 EXCEPT !.pc = "done", !.result = "shaft"]
        ELSE IF c1.j < NumEps
        THEN [c1 EXCEPT !.j = c1.j + 1]
        ELSE ClfNextSample(c1)

----------------------------------------------------------------------------
(* The classifier run step by step against a kernel that may answer        *)
(* anything.  probe keeps the last pair of answers, and every pair so far  *)
(* in which exactly one side was answered inside or on the boundary.       *)

OneSided(stPlus, stMinus) ==
    (stPlus \in {"IN", "ON"}) # (stMinus \in {"IN", "ON"})

ClassifyInit ==
    /\ canon = CanonIdle
    /\ clf = ClfIdle
    /\ probe = ProbeIdle
    /\ fs = FsEmpty
    /\ run = RunIdle
    /\ walk = <<>>
    /\ prev = PrevNone
    /\ calc = CalcIdle

ClassifyCall ==
    /\ clf.pc = "idle"
    /\ \E kind \in SurfaceKinds : clf' = ClfBegin(kind)
    /\ UNCHANGED <<canon, probe, fs, run, walk, prev, calc>>

ClassifySample ==
    /\ clf.pc = "sample"
    /\ \E defined \in BOOLEAN : clf' = ClfSample(clf, defined)
    /\ probe' = [probe EXCEPT !.plus = "none", !.minus = "none"]
    /\ UNCHANGED <<canon, fs, run, walk, prev, calc>>

ClassifyProbe ==
    /\ clf.pc = "probe"
    /\ \E stPlus \in States, stMinus \in States :
          /\ clf' = ClfProbe(clf, stPlus, stMinus)
          /\ probe' = [plus |-> stPlus, minus |-> stMinus,
                       onesided |->
                           IF OneSided(stPlus, stMinus)
                           THEN Append(probe.onesided,
                                       [s |-> clf.i, e |-> clf.j,
                                        plus |-> stPlus, minus |-> stMinus])
                           ELSE probe.onesided]
    /\ UNCHANGED <<canon, fs, run, walk, prev, calc>>

ClassifyNext == ClassifyCall \/ ClassifySample \/ ClassifyProbe

\* The code is sequential and every kernel call returns: a step that can
\* be taken is taken.
SpecClassify == ClassifyInit /\ [][ClassifyNext]_vars /\ WF_vars(ClassifyNext)

----------------------------------------------------------------------------
(* C1.  The classifier visits the three samples in their fixed order and,  *)
(* for a sample whose normal is defined, the five distances in ladder      *)
(* order; a sample with an undefined normal is skipped with no containment *)
(* query; the value returned is the verdict of the first pair, in that     *)
(* order, on which the test decides, and no kernel call follows that pair. *)

\* b is the kernel call that must follow a in the log, if any call follows.
LogFollows(a, b) ==
    \/ a.op = "normal" /\ a.defined /\ b = LogState("plus", a.s, 1)
    \/ a.op = "normal" /\ ~a.defined /\ b.op = "normal" /\ b.s = a.s + 1
    \/ a.op = "plus" /\ b = LogState("minus", a.s, a.e)
    \/ a.op = "minus" /\ a.e < NumEps /\ b = LogState("plus", a.s, a.e + 1)
    \/ a.op = "minus" /\ a.e = NumEps /\ b.op = "normal" /\ b.s = a.s + 1

\* The verdict of a pair in which exactly one side is inside or on.
Verdict(o) == IF o.plus \in {"IN", "ON"} THEN "hole" ELSE "shaft"

\* C1: the log follows the fixed order, and the one pair on which the test
\* fires is the last call made and gives the value returned.
C1_FixedOrder ==
    LET log == clf.log
    IN  /\ log # <<>> => (log[1].op = "normal" /\ log[1].s = 1)
        /\ \A k \in 1..(Len(log) - 1) : LogFollows(log[k], log[k + 1])
        /\ \A k \in DOMAIN log : log[k].s \in 1..NumSamples
        /\ probe.onesided # <<>> =>
              /\ Len(probe.onesided) = 1
              /\ clf.pc = "done"
              /\ log[Len(log)] =
                     LogState("minus", probe.onesided[1].s, probe.onesided[1].e)
              /\ clf.result = Verdict(probe.onesided[1])
        /\ clf.result \in {"hole", "shaft"} => probe.onesided # <<>>

\* The first sample had no normal, and the third distance of the second
\* sample decided for shaft.
C1_Witness ==
    /\ clf.pc = "done"
    /\ clf.result = "shaft"
    /\ Len(clf.log) = 8
    /\ ~clf.log[1].defined
    /\ probe.onesided # <<>>
    /\ probe.onesided[1].s = 2
    /\ probe.onesided[1].e = 3

----------------------------------------------------------------------------
(* C2.  The classifier returns hole only if, at the deciding pair, the     *)
(* plus point was answered inside or on the boundary and the minus point   *)
(* strictly outside, and shaft only in the mirrored case; an answer of     *)
(* indeterminate (TopAbs_UNKNOWN) for the other side does not decide.      *)

C2_StrictlyOutside ==
    clf.pc = "done" =>
        /\ clf.result = "hole" =>
              (probe.plus \in {"IN", "ON"} /\ probe.minus = "OUT")
        /\ clf.result = "shaft" =>
              (probe.minus \in {"IN", "ON"} /\ probe.plus = "OUT")

----------------------------------------------------------------------------
(* C3.  Whatever the kernel answers, the classifier terminates with hole,  *)
(* shaft or unknown and raises nothing, and it returns unknown exactly     *)
(* when no pair decides: every sample was visited, every sample with a     *)
(* normal was probed at all five distances, and the test fired on none.    *)

Exhausted ==
    \A s \in 1..NumSamples :
        \E k \in DOMAIN clf.log :
            /\ clf.log[k].op = "normal"
            /\ clf.log[k].s = s
            /\ clf.log[k].defined =>
                  \A e \in 1..NumEps : \A side \in {"plus", "minus"} :
                      \E m \in DOMAIN clf.log : clf.log[m] = LogState(side, s, e)

C3_Returns ==
    /\ clf.pc \in {"idle", "sample", "probe", "done"}
    /\ clf.pc = "done" <=> clf.result \in {"hole", "shaft", "unknown"}
    /\ clf.pc = "done" => (clf.result = "unknown" <=> probe.onesided = <<>>)
    /\ (clf.pc = "done" /\ clf.result = "unknown" /\ clf.kind = "cylinder")
          => Exhausted

\* C3: C3_Returns holds throughout, and the classifier returns.
C3_Total == [](C3_Returns) /\ <>(clf.pc = "done")

\* All three normals were undefined, and the classifier returned unknown.
C3_WitnessNoNormal ==
    /\ clf.pc = "done"
    /\ clf.result = "unknown"
    /\ Len(clf.log) = NumSamples
    /\ \A k \in DOMAIN clf.log : ~clf.log[k].defined

----------------------------------------------------------------------------
(* Stable identifiers (io/ids.py).  Lengths, areas and direction           *)
(* components are integers in units of 1e-5.  sha1 is kept as the text it  *)
(* hashes and a hex prefix as its length and the hash it is cut from, so   *)
(* two identifiers are equal here only if what they hash is equal.         *)

\* _round3 keeps three decimals: its step, in the model's unit of 1e-5.
Milli == 100

\* A plausible slip in _round3: the digits after the third are cut, not rounded.
Round3Trunc(x) == [neg |-> x < 0, milli |-> Abs(x) \div Milli]

\* _round3: float(f"{x:.3f}"), as str() prints it inside the key: the sign
\* (a negative x keeps its '-' even when it rounds to zero: '-0.0') and the
\* magnitude in thousandths, a tie going to the even thousandth.
Round3(x) ==
    LET a == Abs(x)
        q == a \div Milli
        r == a % Milli
    IN  [neg |-> x < 0,
         milli |-> IF 2 * r < Milli THEN q
                   ELSE IF 2 * r > Milli THEN q + 1
                   ELSE IF q % 2 = 0 THEN q ELSE q + 1]

Round3Vec(v) == <<Round3(v[1]), Round3(v[2]), Round3(v[3])>>

\* _sha1
Sha1(text) == [sha1 |-> text]

\* h[:n]
Prefix(h, n) == [first |-> n, of |-> h]

\* The STEP file given on the command line, and path.stat() of it.
StepPath == "/data/plate.step"

StepStat == [name |-> "plate.step", st_size |-> 48213, st_mtime |-> 1700000000]

\* _file_fingerprint: name | size | int(mtime)
FileFingerprint(path) ==
    Sha1(<<StepStat.name, StepStat.st_size, StepStat.st_mtime>>)

\* stable_face_key: the kind, the kind's parameters as the kernel reports
\* them, the area and the centroid, all rounded, hashed.
StableFaceKey(face) ==
    IF face.kind = "plane"
    THEN Sha1(<<"plane", Round3Vec(face.p), Round3Vec(face.d),
                Round3(face.area), Round3Vec(face.c)>>)
    ELSE IF face.kind = "cylinder"
    THEN Sha1(<<"cyl", Round3Vec(face.p), Round3Vec(face.d), Round3(face.r),
                Round3(face.area), Round3Vec(face.c)>>)
    ELSE Sha1(<<"other", face.stype, Round3(face.area), Round3Vec(face.c)>>)

\* A plausible slip in PartId.from_step: the root index left out.
PartIdNoRoot(path, root_index, solid_index) ==
    <<"part", Prefix(FileFingerprint(path), 10), "s", solid_index>>

\* PartId.from_step: part_{fp[:10]}_r{root_index}_s{solid_index}
PartIdFromStep(path, root_index, solid_index) ==
    <<"part", Prefix(FileFingerprint(path), 10), "r", root_index, "s", solid_index>>

\* A plausible slip in FaceId.from_face: the face's position in the run is
\* made part of its identifier, a counter carried from face to face.
FaceIdCounted(part_id, face) ==
    <<part_id, "face", Prefix(StableFaceKey(face), 12), run.nfaces>>

\* FaceId.from_face: {part_id}_face_{key[:12]}
FaceIdFromFace(part_id, face) ==
    <<part_id, "face", Prefix(StableFaceKey(face), 12)>>

----------------------------------------------------------------------------
(* The faces the kernel may hand out.  A face carries what the kernel      *)
(* answers about it: its surface kind and parameters, its area and         *)
(* centroid and, for the classifier, whether each sample has a normal and  *)
(* the states of the two probe points at each sample and distance.         *)

AllNormals == [s \in 1..NumSamples |-> TRUE]

AllAnswer(stPlus, stMinus) ==
    [s \in 1..NumSamples |-> [e \in 1..NumEps |-> <<stPlus, stMinus>>]]

\* The top of a 50 x 50 x 20 block, its normal reported upwards.
PlaneUp ==
    [kind |-> "plane", stype |-> 0,
     p |-> <<0, 0, 2000000>>, d |-> <<0, 0, 100000>>, r |-> 0,
     area |-> 242146018, c |-> <<2500000, 2500000, 2000000>>,
     normals |-> AllNormals, states |-> AllAnswer("ON", "ON")]

\* The same plane, its normal reported downwards.
PlaneDown == [PlaneUp EXCEPT !.d = <<0, 0, -100000>>]

\* The lateral face of a solid cylinder of radius 5: material on the minus side.
CylShaft ==
    [kind |-> "cylinder", stype |-> 1,
     p |-> <<0, 0, 0>>, d |-> <<0, 0, 100000>>, r |-> 500000,
     area |-> 62831853, c |-> <<0, 0, 1000000>>,
     normals |-> AllNormals, states |-> AllAnswer("OUT", "IN")]

\* The wall of a through-hole of radius 5: the two nearest probes land on
\* the boundary, the third finds material on the plus side.
CylHole ==
    [kind |-> "cylinder", stype |-> 1,
     p |-> <<2500000, 2500000, 0>>, d |-> <<0, 0, -100000>>, r |-> 500000,
     area |-> 62831853, c |-> <<2500000, 2500000, 1000000>>,
     normals |-> [s \in 1..NumSamples |-> s > 1],
     states |-> [s \in 1..NumSamples |-> [e \in 1..NumEps |->
                    IF e < 3 THEN <<"ON", "ON">> ELSE <<"IN", "OUT">>]]]

\* A cylinder of a degenerate solid: the kernel cannot place any point.
CylDegenerate ==
    [kind |-> "cylinder", stype |-> 1,
     p |-> <<-12345, 0, 67891>>, d |-> <<-70711, 70711, 0>>, r |-> 1250,
     area |-> 7854, c |-> <<-12345, 0, 67891>>,
     normals |-> [s \in 1..NumSamples |-> s # 2],
     states |-> AllAnswer("UNKNOWN", "UNKNOWN")]

\* A conical face (GeomAbs_Cone): a kind the extractor leaves out.
Cone ==
    [kind |-> "other", stype |-> 2,
     p |-> <<0, 0, 0>>, d |-> <<0, 0, 100000>>, r |-> 0,
     area |-> 31415927, c |-> <<0, 0, 500000>>,
     normals |-> AllNormals, states |-> AllAnswer("OUT", "OUT")]

FacePool == {PlaneUp, PlaneDown, CylShaft, CylHole, CylDegenerate, Cone}

----------------------------------------------------------------------------
(* The classifier as the extractor calls it: the same steps, fed with the  *)
(* kernel's answers for the face.                                          *)

RECURSIVE ClfRun(_, _)
ClfRun(c, face) ==
    IF c.pc = "sample"
    THEN ClfRun(ClfSample(c, face.normals[c.i]), face)
    ELSE IF c.pc = "probe"
    THEN ClfRun(ClfProbe(c, face.states[c.i][c.j][1], face.states[c.i][c.j][2]),
                face)
    ELSE c

ClassifyCylinderHoleVsShaft(face) == ClfRun(ClfBegin(face.kind), face).result

----------------------------------------------------------------------------
(* The feature extractor, extract_features_for_solid.                      *)

PlaneFeature(face_id, face) ==
    [feature_id |-> <<face_id, "_plane">>,
     type |-> "plane",
     face_id |-> face_id,
     tags |-> <<>>,
     geom |-> [origin |-> face.p, normal |-> CanonicalDir(face.d)],
     meta |-> [area |-> face.area, centroid |-> face.c]]

\* A plausible slip: the classifier's answer is always attached as a tag.
CylinderTagsAlways(kind) == <<kind>>

\* tags = [kind] if kind != "unknown" else []
CylinderTags(kind) == IF kind # "unknown" THEN <<kind>> ELSE <<>>

\* A plausible slip: the plane's record copied for the cylinder, its
\* suffix left as it was.
CylinderFeaturePlaneSuffix(face_id, face) ==
    [feature_id |-> <<face_id, "_plane">>,
     type |-> "cylinder",
     face_id |-> face_id,
     tags |-> CylinderTags(ClassifyCylinderHoleVsShaft(face)),
     geom |-> [axis_point |-> face.p, axis_dir |-> CanonicalDir(face.d),
               radius |-> face.r],
     meta |-> [area |-> face.area, centroid |-> face.c]]

CylinderFeature(face_id, face) ==
    [feature_id |-> <<face_id, "_cyl">>,
     type |-> "cylinder",
     face_id |-> face_id,
     tags |-> CylinderTags(ClassifyCylinderHoleVsShaft(face)),
     geom |-> [axis_point |-> face.p, axis_dir |-> CanonicalDir(face.d),
               radius |-> face.r],
     meta |-> [area |-> face.area, centroid |-> face.c]]

\* A plausible slip: a bare else where the code tests for GeomAbs_Cylinder,
\* so that every face that is no plane is recorded as a cylinder.
FeaturesAppendElse(features, part_id, face) ==
    LET face_id == FaceIdFromFace(part_id, face)
    IN  IF face.kind = "plane"
        THEN Append(features, PlaneFeature(face_id, face))
        ELSE Append(features, CylinderFeature(face_id, face))

\* The body of the loop over the faces: a plane or a cylinder appends its
\* record, any other kind appends nothing.
FeaturesAppend(features, part_id, face) ==
    LET face_id == FaceIdFromFace(part_id, face)
    IN  IF face.kind = "plane"
        THEN Append(features, PlaneFeature(face_id, face))
        ELSE IF face.kind = "cylinder"
        THEN Append(features, CylinderFeature(face_id, face))
        ELSE features

\* The document extract_features_for_solid returns.
Catalog(part_id, solid_index, features) ==
    [schema_version |-> "0.1",
     part_id |-> part_id,
     source |-> [step_path |-> StepPath, solid_index |-> solid_index],
     units |-> "mm",
     features |-> features]

----------------------------------------------------------------------------
(* The file system and the STEP reader.                                    *)

\* The output directory given to the command.
OutDir == <<"outputs">>

IndexPath == OutDir \o <<"part_index.json">>

PartFolder(part_id) == OutDir \o <<"parts", part_id>>

CatalogPath(part_id) == PartFolder(part_id) \o <<"PartFeatures.json">>

\* path.mkdir(parents=True, exist_ok=True): the directory and, below the
\* output directory, its parents.
Mkdir(f, path) ==
    [f EXCEPT !.dirs = @ \cup {SubSeq(path, 1, n) : n \in 1..Len(path)}]

\* path.write_text(json.dumps(doc)): the file holds the document, whatever
\* it held before.
WriteText(f, path, doc) ==
    [f EXCEPT !.files = [q \in (DOMAIN f.files) \cup {path} |->
                            IF q = path THEN doc ELSE f.files[q]],
              !.log = Append(@, path)]

\* load_step_shapes: the reader's status and the number of roots it
\* transfers decide between the two errors and the list of shapes.
LoadStepShapes(status, n) ==
    IF status # "IFSelect_RetDone" THEN [raised |-> TRUE, shapes |-> 0]
    ELSE IF n = 0 THEN [raised |-> TRUE, shapes |-> 0]
    ELSE [raised |-> FALSE, shapes |-> n]

ReadStatuses == {"IFSelect_RetDone", "IFSelect_RetFail"}

\* The walker's ghost: a new root shape begins, a new solid begins in the
\* last root, a new face is met in the last solid.
WalkRoot(w) == Append(w, <<>>)

WalkSolid(w) == [w EXCEPT ![Len(w)] = Append(@, <<>>)]

WalkFace(w, face) ==
    [w EXCEPT ![Len(w)] = [@ EXCEPT ![Len(@)] = Append(@, face)]]

----------------------------------------------------------------------------
(* The kernel's answers.  Of a file read for the first time they can be    *)
(* anything; the kernel is deterministic, so of an unchanged file read     *)
(* again (prev.n > 0) the reader transfers the same roots and each         *)
(* explorer yields the same items in the same order and is exhausted at    *)
(* the same place.                                                         *)

\* The solids begun so far in the root the walker is in.
CurSolids == walk[Len(walk)]

\* The faces met so far in the solid the walker is in.
CurFaces == walk[Len(walk)][Len(walk[Len(walk)])]

\* reader.ReadFile(path)
KernelStatuses == IF prev.n = 0 THEN ReadStatuses ELSE {"IFSelect_RetDone"}

\* reader.NbShapes() after TransferRoots()
KernelRoots == IF prev.n = 0 THEN 0..MaxRoots ELSE {Len(prev.walk)}

\* exp.More() of the TopAbs_SOLID explorer of the current root
MoreSolids ==
    IF prev.n = 0 THEN BOOLEAN
    ELSE {Len(CurSolids) < Len(prev.walk[Len(walk)])}

\* exp.More() of the TopAbs_FACE explorer of the current solid
MoreFaces ==
    IF prev.n = 0 THEN BOOLEAN
    ELSE {Len(CurFaces) < Len(prev.walk[Len(walk)][Len(CurSolids)])}

\* topods.Face(exp.Current())
NextFaces ==
    IF prev.n = 0 THEN FacePool
    ELSE {prev.walk[Len(walk)][Len(CurSolids)][Len(CurFaces) + 1]}

----------------------------------------------------------------------------
(* cmd_import.                                                             *)

\* A plausible slip: the extractor's filter copied into the import, so a
\* face of an unsupported kind gets no entry.
FacePayloadSupported(payload, part_id, face) ==
    IF face.kind \in {"plane", "cylinder"}
    THEN Append(payload, [face_id |-> FaceIdFromFace(part_id, face),
                          key |-> StableFaceKey(face)])
    ELSE payload

\* faces_payload.append({face_id, key})
FacePayload(payload, part_id, face) ==
    Append(payload, [face_id |-> FaceIdFromFace(part_id, face),
                     key |-> StableFaceKey(face)])

\* index["parts"].append({...})
PartEntry(part_id, root_i, solid_i, payload) ==
    [part_id |-> part_id,
     root_index |-> root_i,
     solid_index |-> solid_i,
     num_faces |-> Len(payload),
     faces |-> payload]

\* Lines 11-22: the shapes are loaded first; only then is the output
\* directory made and the index begun.
CmdImport ==
    /\ run.pc = "idle"
    /\ \E status \in KernelStatuses, n \in KernelRoots :
          LET loaded == LoadStepShapes(status, n)
          IN  IF loaded.raised
              THEN /\ run' = [run EXCEPT !.cmd = "import", !.pc = "done",
                                         !.status = "error", !.dirs0 = fs.dirs]
                   /\ UNCHANGED <<fs, walk>>
              ELSE /\ fs' = Mkdir(fs, OutDir)
                   /\ run' = [run EXCEPT
                                 !.cmd = "import", !.pc = "solids",
                                 !.dirs0 = fs.dirs,
                                 !.nroots = loaded.shapes,
                                 !.root = 0, !.solid = 0,
                                 !.index = [schema_version |-> "0.1",
                                            step_path |-> StepPath,
                                            num_root_shapes |-> loaded.shapes,
                                            parts |-> <<>>]]
                   /\ walk' = WalkRoot(walk)
    /\ UNCHANGED <<canon, clf, probe, prev, calc>>

\* Lines 24-26 and 44-47: the explorer of the current root yields its next
\* solid; or it is exhausted and the next root is taken; or the roots are
\* exhausted too and the index is written.
ImportSolid ==
    /\ run.cmd = "import"
    /\ run.pc = "solids"
    /\ \E more \in MoreSolids :
          /\ more => run.nsolids < MaxSolids
          /\ IF more
             THEN /\ run' = [run EXCEPT
                                !.pc = "faces",
                                !.part_id = PartIdFromStep(StepPath, run.root, run.solid),
                                !.faces_payload = <<>>,
                                !.nsolids = @ + 1]
                  /\ walk' = WalkSolid(walk)
                  /\ UNCHANGED fs
             ELSE IF run.root + 1 < run.nroots
             THEN /\ run' = [run EXCEPT !.root = @ + 1, !.solid = 0]
                  /\ walk' = WalkRoot(walk)
                  /\ UNCHANGED fs
             ELSE /\ fs' = WriteText(fs, IndexPath, run.index)
                  /\ run' = [run EXCEPT !.pc = "done", !.status = "ok"]
                  /\ UNCHANGED walk
    /\ UNCHANGED <<canon, clf, probe, prev, calc>>

\* Lines 29-42: the explorer of the solid yields its next face, which gets
\* its entry; or it is exhausted and the part is appended to the index.
ImportFace ==
    /\ run.cmd = "import"
    /\ run.pc = "faces"
    /\ \E more \in MoreFaces :
          /\ more => run.nfaces < MaxFaces
          /\ IF more
             THEN \E face \in NextFaces :
                    /\ run' = [run EXCEPT
                                  !.faces_payload = FacePayload(@, run.part_id, face),
                                  !.nfaces = @ + 1]
                    /\ walk' = WalkFace(walk, face)
             ELSE /\ run' = [run EXCEPT
                                !.index.parts =
                                    Append(@, PartEntry(run.part_id, run.root,
                                                        run.solid, run.faces_payload)),
                                !.solid = @ + 1,
                                !.pc = "solids"]
                  /\ UNCHANGED walk
    /\ UNCHANGED <<canon, clf, probe, fs, prev, calc>>

----------------------------------------------------------------------------
(* extract_all.                                                            *)

\* Lines 201-207: the output directory is made first; then the shapes are
\* loaded, which may raise.
CmdExtract ==
    /\ run.pc = "idle"
    /\ fs' = Mkdir(fs, OutDir)
    /\ \E status \in KernelStatuses, n \in KernelRoots :
          LET loaded == LoadStepShapes(status, n)
          IN  IF loaded.raised
              THEN /\ run' = [run EXCEPT !.cmd = "extract", !.pc = "done",
                                         !.status = "error", !.dirs0 = fs.dirs]
                   /\ UNCHANGED walk
              ELSE /\ run' = [run EXCEPT
                                 !.cmd = "extract", !.pc = "solids",
                                 !.dirs0 = fs.dirs,
                                 !.nroots = loaded.shapes,
                                 !.root = 0, !.solid = 0,
                                 !.written = <<>>]
                   /\ walk' = WalkRoot(walk)
    /\ UNCHANGED <<canon, clf, probe, prev, calc>>

\* Lines 208-210 and 228: the next solid of the current root, the next
\* root, or the return of the list of written paths.
ExtractSolid ==
    /\ run.cmd = "extract"
    /\ run.pc = "solids"
    /\ \E more \in MoreSolids :
          /\ more => run.nsolids < MaxSolids
          /\ IF more
             THEN /\ run' = [run EXCEPT
                                !.pc = "faces",
                                !.part_id = PartIdFromStep(StepPath, run.root, run.solid),
                                !.features = <<>>,
                                !.nsolids = @ + 1]
                  /\ walk' = WalkSolid(walk)
             ELSE IF run.root + 1 < run.nroots
             THEN /\ run' = [run EXCEPT !.root = @ + 1, !.solid = 0]
                  /\ walk' = WalkRoot(walk)
             ELSE /\ run' = [run EXCEPT !.pc = "done", !.status = "ok"]
                  /\ UNCHANGED walk
    /\ UNCHANGED <<canon, clf, probe, fs, prev, calc>>

\* extract_features_for_solid, lines 134-197, and lines 221-226: the next
\* face of the solid is turned into its record, if its kind has one; or
\* the faces are exhausted, and the catalog is written into the part's
\* folder.
ExtractFace ==
    /\ run.cmd = "extract"
    /\ run.pc = "faces"
    /\ \E more \in MoreFaces :
          /\ more => run.nfaces < MaxFaces
          /\ IF more
             THEN \E face \in NextFaces :
                    /\ run' = [run EXCEPT
                                  !.features = FeaturesAppend(@, run.part_id, face),
                                  !.nfaces = @ + 1]
                    /\ walk' = WalkFace(walk, face)
                    /\ UNCHANGED fs
             ELSE /\ fs' = WriteText(Mkdir(fs, PartFolder(run.part_id)),
                                     CatalogPath(run.part_id),
                                     Catalog(run.part_id, run.solid, run.features))
                  /\ run' = [run EXCEPT
                                !.written = Append(@, CatalogPath(run.part_id)),
                                !.solid = @ + 1,
                                !.pc = "solids"]
                  /\ UNCHANGED walk
    /\ UNCHANGED <<canon, clf, probe, prev, calc>>

----------------------------------------------------------------------------
(* The extract_features command of the command line.                       *)

\* cmd_extract_features: raise SystemExit("extract_features not implemented
\* yet (Phase 2)."), a non-zero exit; its parser takes no file and no
\* directory, and extract_all is not called.
CmdExtractFeatures ==
    /\ run.pc = "idle"
    /\ run' = [run EXCEPT !.cmd = "extract_features", !.pc = "done",
                          !.status = "error", !.dirs0 = fs.dirs]
    /\ UNCHANGED <<canon, clf, probe, fs, walk, prev, calc>>

----------------------------------------------------------------------------
(* One run of one command, from an output directory that exists or not.    *)

RunInit ==
    /\ canon = CanonIdle
    /\ clf = ClfIdle
    /\ probe = ProbeIdle
    /\ fs \in {FsEmpty, Mkdir(FsEmpty, OutDir)}
    /\ run = RunIdle
    /\ walk = <<>>
    /\ prev = PrevNone
    /\ calc = CalcIdle

Next ==
    \/ CmdImport
    \/ ImportSolid
    \/ ImportFace
    \/ CmdExtract
    \/ ExtractSolid
    \/ ExtractFace
    \/ CmdExtractFeatures

Spec == RunInit /\ [][Next]_vars

----------------------------------------------------------------------------
(* What the claims about the runs read off the state.                      *)

\* The (root, solid) positions, 1-based, of the solids whose faces have all
\* been met: every solid begun, but the one the walker is in.
ClosedSolids ==
    {rs \in {<<r, s>> : r \in DOMAIN walk, s \in 1..MaxSolids + 1} :
        /\ rs[2] <= Len(walk[rs[1]])
        /\ ~(run.pc = "faces" /\ rs[1] = Len(walk) /\ rs[2] = Len(walk[Len(walk)]))}

RECURSIVE SolidsBefore(_, _)
SolidsBefore(w, r) == IF r = 0 THEN 0 ELSE Len(w[r]) + SolidsBefore(w, r - 1)

IsSupported(face) == face.kind \in {"plane", "cylinder"}

----------------------------------------------------------------------------
(* C4.  Two faces of one part whose rounded parameters (kind, origin or    *)
(* axis point, radius, area, centroid) agree and whose normal or axis is   *)
(* reported as d and as -d get the same key and the same FaceId; and the   *)
(* FaceId of a face does not depend on its place in the enumeration.       *)

Mirrored(f, g) ==
    /\ IsSupported(f)
    /\ f.kind = g.kind
    /\ Round3Vec(f.p) = Round3Vec(g.p)
    /\ Round3(f.r) = Round3(g.r)
    /\ Round3(f.area) = Round3(g.area)
    /\ Round3Vec(f.c) = Round3Vec(g.c)
    /\ g.d = Neg(f.d)

\* C4: mirrored faces of the part being imported share key and FaceId, and
\* equal faces share their FaceId wherever they are met.
C4_SignIndependentKey ==
    (run.cmd = "import" /\ run.pc = "faces") =>
        \A a \in DOMAIN run.faces_payload, b \in DOMAIN run.faces_payload :
            /\ Mirrored(CurFaces[a], CurFaces[b]) =>
                  /\ run.faces_payload[a].key = run.faces_payload[b].key
                  /\ run.faces_payload[a].face_id = run.faces_payload[b].face_id
            /\ CurFaces[a] = CurFaces[b] =>
                  run.faces_payload[a].face_id = run.faces_payload[b].face_id

----------------------------------------------------------------------------
(* C7.  For every solid the extractor emits exactly one record for each    *)
(* face that is a plane or a cylinder and none for any other kind, in the  *)
(* order in which the walker met the faces, with the type of the face.     *)

FeaturesMatch(features, part_id, faces) ==
    LET sup == SelectSeq(faces, IsSupported)
    IN  /\ Len(features) = Len(sup)
        /\ \A k \in DOMAIN features :
              /\ features[k].type = sup[k].kind
              /\ features[k].face_id = FaceIdFromFace(part_id, sup[k])
              /\ features[k].meta = [area |-> sup[k].area, centroid |-> sup[k].c]

\* C7: the records of the solid in work and of every catalog written are
\* the plane and cylinder faces met, in order.
C7_OneFeaturePerSupportedFace ==
    run.cmd = "extract" =>
        /\ run.pc = "faces" => FeaturesMatch(run.features, run.part_id, CurFaces)
        /\ \A rs \in ClosedSolids :
              LET part_id == PartIdFromStep(StepPath, rs[1] - 1, rs[2] - 1)
              IN  /\ CatalogPath(part_id) \in DOMAIN fs.files
                  /\ FeaturesMatch(fs.files[CatalogPath(part_id)].features,
                                   part_id, walk[rs[1]][rs[2]])

\* A catalog was written for a solid of a cone and a cylinder: one record.
C7_Witness ==
    /\ run.cmd = "extract"
    /\ run.status = "ok"
    /\ walk[1] = <<<<Cone, CylShaft>>>>
    /\ Len(fs.files[CatalogPath(PartIdFromStep(StepPath, 0, 0))].features) = 1

----------------------------------------------------------------------------
(* C8.  In every catalog a plane has no tag, and a cylinder has exactly    *)
(* the tag hole or shaft the classifier returned for it, and no tag when   *)
(* it returned unknown; "unknown" is never a tag and no record has two.    *)

TagsMatch(features, faces) ==
    LET sup == SelectSeq(faces, IsSupported)
    IN  \A k \in (DOMAIN features) \cap (DOMAIN sup) :
            LET tags == features[k].tags
                kind == ClassifyCylinderHoleVsShaft(sup[k])
            IN  /\ Len(tags) <= 1
                /\ \A t \in DOMAIN tags : tags[t] # "unknown"
                /\ features[k].type = "plane" => tags = <<>>
                /\ features[k].type = "cylinder" =>
                      /\ kind = "hole" => tags = <<"hole">>
                      /\ kind = "shaft" => tags = <<"shaft">>
                      /\ kind = "unknown" => tags = <<>>

\* C8: the tags of the solid in work and of every catalog written are the
\* classifier's hole or shaft, or none.
C8_Tags ==
    run.cmd = "extract" =>
        /\ run.pc = "faces" => TagsMatch(run.features, CurFaces)
        /\ \A rs \in ClosedSolids :
              LET part_id == PartIdFromStep(StepPath, rs[1] - 1, rs[2] - 1)
              IN  /\ CatalogPath(part_id) \in DOMAIN fs.files
                  /\ TagsMatch(fs.files[CatalogPath(part_id)].features,
                               walk[rs[1]][rs[2]])

\* A catalog holds a cylinder tagged hole and a cylinder the classifier
\* could not decide, with no tag.
C8_Witness ==
    /\ run.cmd = "extract"
    /\ run.status = "ok"
    /\ walk[1] = <<<<CylHole, CylDegenerate>>>>
    /\ LET features == fs.files[CatalogPath(PartIdFromStep(StepPath, 0, 0))].features
       IN  /\ features[1].tags = <<"hole">>
           /\ features[2].tags = <<>>

----------------------------------------------------------------------------
(* C9.  The part index written by the import has num_root_shapes equal to  *)
(* the number of root shapes transferred and one parts entry per (root,    *)
(* solid) pair in walker order, both indices from 0; num_faces of an entry *)
(* is the length of its faces list and the number of all faces the walker  *)
(* met in that solid, unsupported kinds included.                          *)

C9_PartIndex ==
    IndexPath \in DOMAIN fs.files =>
        LET index == fs.files[IndexPath]
        IN  /\ index.num_root_shapes = run.nroots
            /\ index.num_root_shapes = Len(walk)
            /\ Len(index.parts) = SolidsBefore(walk, Len(walk))
            /\ \A r \in DOMAIN walk : \A s \in DOMAIN walk[r] :
                  LET entry == index.parts[SolidsBefore(walk, r - 1) + s]
                  IN  /\ entry.root_index = r - 1
                      /\ entry.solid_index = s - 1
                      /\ entry.num_faces = Len(entry.faces)
                      /\ entry.num_faces = Len(walk[r][s])

\* An index was written for two roots of one solid each, the first solid
\* holding a cone.
C9_Witness ==
    /\ IndexPath \in DOMAIN fs.files
    /\ Len(walk) = 2
    /\ walk[1] = <<<<Cone>>>>
    /\ walk[2] = <<<<PlaneUp>>>>
    /\ fs.files[IndexPath].parts[2].root_index = 1

----------------------------------------------------------------------------
(* C10.  If reading or transferring the file fails, or no root shape is    *)
(* transferred, the import and the extraction each end in an error and     *)
(* leave nothing behind: no index, no catalog, no new output directory.    *)

C10_NoArtifactOnFailure ==
    run.status = "error" =>
        /\ DOMAIN fs.files = {}
        /\ fs.dirs = run.dirs0

----------------------------------------------------------------------------
(* C11.  The extract-features command, given a file that imports, ends     *)
(* with the catalogs produced, one per solid, and a success exit.          *)

C11_ExtractFeaturesSucceeds ==
    (run.cmd = "extract_features" /\ run.pc = "done") =>
        /\ run.status = "ok"
        /\ \E p \in DOMAIN fs.files : p[Len(p)] = "PartFeatures.json"

----------------------------------------------------------------------------
(* The key of a plane whose normal the kernel reports twice, the second    *)
(* time with noise.  A unit normal close to +z: its x component is small   *)
(* (below 0.0016) and its z component is 1.00000 at the model's unit.      *)

\* The noise of a recomputation: less than 1e-4 in a component.
Tol == Milli \div 10

NearZ(x) == <<x, 0, 1000 * Milli>>

\* FaceId.from_face of a plane that differs from PlaneUp by its normal only.
FaceIdOfNormal(d) ==
    FaceIdFromFace(PartIdFromStep(StepPath, 0, 0), [PlaneUp EXCEPT !.d = d])

CalcInit ==
    /\ canon = CanonIdle
    /\ clf = ClfIdle
    /\ probe = ProbeIdle
    /\ fs = FsEmpty
    /\ run = RunIdle
    /\ walk = <<>>
    /\ prev = PrevNone
    /\ calc = CalcIdle

\* stable_face_key and FaceId.from_face, on a normal and on a noisy copy of it
RoundPair ==
    /\ calc.op = "none"
    /\ \E x \in (-RoundWindow)..RoundWindow, dx \in (1 - Tol)..(Tol - 1) :
          LET u == NearZ(x)
              v == NearZ(x + dx)
          IN  calc' = [op |-> "round3", in |-> <<u, v>>,
                       out |-> <<Round3Vec(u), Round3Vec(v),
                                 FaceIdOfNormal(u), FaceIdOfNormal(v)>>]
    /\ UNCHANGED <<canon, clf, probe, fs, run, walk, prev>>

RoundNext == RoundPair

SpecRound == CalcInit /\ [][RoundNext]_vars

\* C12.  Two directions whose components each differ by less than 1e-4
\* always round to the same 3-decimal tuple and give the same FaceId, next
\* to a rounding boundary too.
C12_SameKeyWithinTol ==
    calc.op = "round3" =>
        /\ calc.out[1] = calc.out[2]
        /\ calc.out[3] = calc.out[4]

\* No rounding boundary (an odd multiple of 0.0005) lies between a and b,
\* ends included, and a and b do not differ in sign.
Clear(a, b) ==
    /\ (a < 0) = (b < 0)
    /\ LET lo == IF Abs(a) < Abs(b) THEN Abs(a) ELSE Abs(b)
           hi == IF Abs(a) < Abs(b) THEN Abs(b) ELSE Abs(a)
       IN  \A t \in lo..hi : t % Milli # Milli \div 2

\* C12, amended.  Two directions whose components each differ by less than
\* 1e-4 round to the same tuple and give the same FaceId when no component
\* pair has a rounding boundary between its two values or differs in sign;
\* in every case the rounded magnitudes differ by at most 0.001.
C12_SameKeyAwayFromBoundary ==
    calc.op = "round3" =>
        LET u == calc.in[1]
            v == calc.in[2]
        IN  /\ (\A i \in 1..3 : Clear(u[i], v[i])) =>
                   /\ calc.out[1] = calc.out[2]
                   /\ calc.out[3] = calc.out[4]
            /\ \A i \in 1..3 :
                   Abs(calc.out[1][i].milli - calc.out[2][i].milli) <= 1

\* 0.00051 and 0.00059, both just above the boundary 0.0005: the same key.
C12_Witness ==
    /\ calc.op = "round3"
    /\ calc.in[1][1] = Milli \div 2 + 1
    /\ calc.in[2][1] = Milli \div 2 + Tol - 1
    /\ calc.out[1] = calc.out[2]
    /\ calc.out[3] = calc.out[4]

----------------------------------------------------------------------------
(* The same command run a second time on the same file: main() returns,    *)
(* the process ends, and the command line is entered again.  The file      *)
(* system is what persists.                                                *)

\* main, entered again after a run that returned: the locals are gone, the
\* files remain.  prev remembers the first run for the comparison.
Rerun ==
    /\ run.pc = "done"
    /\ run.status = "ok"
    /\ prev.n = 0
    /\ prev' = [n |-> 1, cmd |-> run.cmd, walk |-> walk, files |-> fs.files]
    /\ run' = RunIdle
    /\ walk' = <<>>
    /\ UNCHANGED <<canon, clf, probe, fs, calc>>

ReimportNext ==
    \/ CmdImport
    \/ ImportSolid
    \/ ImportFace
    \/ Rerun

SpecReimport == RunInit /\ [][ReimportNext]_vars

\* The part entries of the index being built and of the index of the run before.
IndexParts(doc) == IF doc = None THEN {} ELSE {doc.parts[k] : k \in DOMAIN doc.parts}

KnownParts ==
    IndexParts(run.index) \cup
    (IF IndexPath \in DOMAIN prev.files THEN IndexParts(prev.files[IndexPath]) ELSE {})

KnownFaces ==
    UNION {{[part_id |-> e.part_id, face_id |-> e.faces[j].face_id,
             key |-> e.faces[j].key] : j \in DOMAIN e.faces} : e \in KnownParts}

\* C13.  With the file and the kernel's answers unchanged, the second
\* import writes the index document the first one wrote (same PartIds, same
\* FaceIds, same order); and over the faces, parts and runs, equal (root
\* index, solid index) give equal PartIds and equal (PartId, rounded key)
\* give equal FaceIds.
C13_Deterministic ==
    /\ (prev.n > 0 /\ run.cmd = "import" /\ run.pc = "done") =>
          /\ run.index = prev.files[IndexPath]
          /\ fs.files[IndexPath] = prev.files[IndexPath]
    /\ \A e1, e2 \in KnownParts :
          (e1.root_index = e2.root_index /\ e1.solid_index = e2.solid_index)
              => e1.part_id = e2.part_id
    /\ \A f1, f2 \in KnownFaces :
          (f1.part_id = f2.part_id /\ f1.key = f2.key) => f1.face_id = f2.face_id

\* A second import has ended on a file of two solids, the first with two
\* faces of one rounded geometry, and left the index as the first wrote it.
C13_Witness ==
    /\ prev.n > 0
    /\ run.cmd = "import"
    /\ run.pc = "done"
    /\ Len(run.index.parts) = 2
    /\ run.index.parts[1].num_faces = 2
    /\ run.index.parts[1].faces[1].key = run.index.parts[1].faces[2].key
    /\ fs.files[IndexPath] = prev.files[IndexPath]

----------------------------------------------------------------------------
(* The probe distances of the classifier.  A radius is an integer in units *)
(* of 1e-5, as in a face; a distance is an integer in units of 1e-7, so    *)
(* that r * 0.02 is 2 * r, r * 0.05 is 5 * r and r * 0.10 is 10 * r.       *)

Max(a, b) == IF a >= b THEN a ELSE b

\* A plausible slip in eps_list: the floors alone, the radius left out.
EpsListUnscaled(r) == <<500000, 2000000, 5000000, 10000000, 20000000>>

\* eps_list = [max(0.05, r * 0.02), max(0.2, r * 0.05), max(0.5, r * 0.10),
\*             1.0, 2.0]
EpsList(r) ==
    <<Max(500000, 2 * r), Max(2000000, 5 * r), Max(5000000, 10 * r),
      10000000, 20000000>>

\* The radii tried: 0, 0.25, 0.5, ...
RadiusStep == 250 * Milli

Radii == {k * RadiusStep : k \in 0..MaxRadiusSteps}

\* r = float(surf_adapt.Cylinder().Radius()) and the list built from it
LadderCall ==
    /\ calc.op = "none"
    /\ \E r \in Radii :
          calc' = [op |-> "eps_list", in |-> r, out |-> EpsList(r)]
    /\ UNCHANGED <<canon, clf, probe, fs, run, walk, prev>>

LadderNext == LadderCall

SpecLadder == CalcInit /\ [][LadderNext]_vars

\* C14.  For every radius r >= 0 the five probe distances are tried in
\* increasing order: each is not smaller than the one tried before it.
C14_LadderIncreasing ==
    calc.op = "eps_list" =>
        \A j \in 1..(NumEps - 1) : calc.out[j] <= calc.out[j + 1]

\* C14, amended.  The first three probe distances are in increasing order
\* for every radius r >= 0; the five are in increasing order exactly when
\* r <= 10: above it the third, 0.10 r, is larger than the fourth, 1.0.
C14_LadderIncreasingUpToTen ==
    calc.op = "eps_list" =>
        /\ Len(calc.out) = NumEps
        /\ \A j \in 1..2 : calc.out[j] <= calc.out[j + 1]
        /\ (\A j \in 1..(NumEps - 1) : calc.out[j] <= calc.out[j + 1])
               <=> calc.in <= 10000 * Milli

\* r = 10: the third distance is 1.0, as the fourth.
C14_Witness ==
    /\ calc.op = "eps_list"
    /\ calc.in = 10000 * Milli
    /\ calc.out[3] = calc.out[4]
    /\ calc.out[2] < calc.out[3]

----------------------------------------------------------------------------
(* extract_all run a second time on the same file, into the same output    *)
(* directory.                                                              *)

ReextractNext ==
    \/ CmdExtract
    \/ ExtractSolid
    \/ ExtractFace
    \/ Rerun

SpecReextract == RunInit /\ [][ReextractNext]_vars

\* C15.  A catalog file written by an earlier extraction run is never
\* modified or overwritten by a later run: a run only creates new catalog
\* files, also when the same file is extracted again into the same output
\* directory.
C15_NeverOverwrites ==
    prev.n > 0 =>
        \A k \in DOMAIN run.written : run.written[k] \notin DOMAIN prev.files

----------------------------------------------------------------------------
(* The feature_ids of one catalog.                                         *)

\* The suffix a record's type asks for.
Suffix(type) == IF type = "plane" THEN "_plane" ELSE "_cyl"

WellFormedIds(features) ==
    \A k \in DOMAIN features :
        features[k].feature_id = <<features[k].face_id, Suffix(features[k].type)>>

\* The record lists to look at during an extraction: the one in work and
\* those of the catalogs written.
FeatureLists ==
    {run.features} \cup {fs.files[p].features : p \in DOMAIN fs.files}

\* C16.  Every feature_id is the face_id followed by "_plane" or "_cyl",
\* and no two records of one catalog share a feature_id, also for a solid
\* with several faces of identical rounded geometry.
C16_FeatureIdsUnique ==
    run.cmd = "extract" =>
        \A features \in FeatureLists :
            /\ WellFormedIds(features)
            /\ \A i, j \in DOMAIN features :
                  i # j => features[i].feature_id # features[j].feature_id

\* The rounded parameters of a face that enter its key, the direction as
\* the kernel reports it.
RoundedGeometry(face) ==
    <<Round3Vec(face.p), Round3Vec(face.d),
      IF face.kind = "cylinder" THEN Round3(face.r) ELSE None,
      Round3(face.area), Round3Vec(face.c)>>

\* C16, amended.  Every feature_id is the face_id followed by "_plane" or
\* "_cyl"; two records of one catalog share a feature_id exactly when their
\* faces are of the same kind and have the same rounded geometry.
C16_FeatureIdsFollowGeometry ==
    /\ run.cmd = "extract" => \A features \in FeatureLists : WellFormedIds(features)
    /\ (run.cmd = "extract" /\ run.pc = "faces") =>
          LET sup == SelectSeq(CurFaces, IsSupported)
          IN  /\ Len(run.features) = Len(sup)
              /\ \A i, j \in DOMAIN run.features :
                    run.features[i].feature_id = run.features[j].feature_id
                        <=> /\ sup[i].kind = sup[j].kind
                            /\ RoundedGeometry(sup[i]) = RoundedGeometry(sup[j])

\* A catalog was written with two records of one feature_id.
C16_Witness ==
    /\ run.cmd = "extract"
    /\ \E p \in DOMAIN fs.files :
          /\ Len(fs.files[p].features) = 2
          /\ fs.files[p].features[1].feature_id = fs.files[p].features[2].feature_id

----------------------------------------------------------------------------
(* C17.  Within one extraction run distinct (root index, solid index)      *)
(* pairs give distinct PartIds and so distinct catalog paths: one catalog  *)
(* file is written per solid, none over another's, and the list of paths   *)
(* returned has one entry per solid, in the walker's order.                *)

PartIdAt(rs) == PartIdFromStep(StepPath, rs[1] - 1, rs[2] - 1)

\* C17: the PartIds of the solids done are pairwise distinct; the k-th path
\* returned is the catalog path of the k-th solid done; the paths are
\* pairwise distinct, each was written once, and they are the files there are.
C17_OneCatalogPerSolid ==
    run.cmd = "extract" =>
        /\ \A a, b \in ClosedSolids : a # b => PartIdAt(a) # PartIdAt(b)
        /\ Len(run.written) = Cardinality(ClosedSolids)
        /\ \A rs \in ClosedSolids :
              run.written[SolidsBefore(walk, rs[1] - 1) + rs[2]]
                  = CatalogPath(PartIdAt(rs))
        /\ \A i, j \in DOMAIN run.written :
              i # j => run.written[i] # run.written[j]
        /\ fs.log = run.written
        /\ DOMAIN fs.files = {run.written[k] : k \in DOMAIN run.written}

\* extract_all returned two paths for a file of two roots of one solid each.
C17_Witness ==
    /\ run.cmd = "extract"
    /\ run.pc = "done"
    /\ run.status = "ok"
    /\ Len(walk) = 2
    /\ Len(walk[1]) = 1
    /\ Len(walk[2]) = 1
    /\ Len(run.written) = 2
    /\ Cardinality(DOMAIN fs.files) = 2

====
